---- MODULE Spec2Model ----
(***************************************************************************)
(* Model of zone/expedition_database.cpp: the persistence operations of    *)
(* the expedition system over the tables expedition_character_lockouts and *)
(* expedition_members.  Every operation issues one SQL statement; an       *)
(* action of this module is one call of the operation, statement included. *)
(***************************************************************************)
EXTENDS Integers, Sequences, FiniteSets, TLC

(* ------------------------------ bounds -------------------------------- *)
\* NOW() of the storage engine lies between 0 and MaxTime
MaxTime == 2
\* longest vector of lockouts or members handed to a batch operation
MaxBatch == 2
\* most rows a table holds; a statement that would exceed it is not issued
MaxRows == 2
\* most membership calls recorded in one run
MaxHistory == 3
\* concurrent callers of the merge operations
MaxThreads == 2

(* --------------------------- input domains ---------------------------- *)
\* character ids; 0 is accepted by every insert
CharIds == {0, 1}
\* expedition ids: AUTO_INCREMENT identities, 0 is the "not created" sentinel
ExpeditionIds == {1, 2}
ExpeditionNames == {"Solteris", "Vxed"}
EventNames == {"boss1", "boss2"}
\* (source uuid, expire time, original duration) of the lockouts written
TimerValues == {<<"u1", 1, 3600>>, <<"u2", 2, 7200>>}
\* values of NOW() when a read statement runs
Times == 0..MaxTime

\* ExpeditionLockoutTimer values handed to the write operations
LockoutTimers ==
    {[expedition_uuid |-> v[1], expedition_name |-> n, event_name |-> e,
      expire_time |-> v[2], duration |-> v[3]] :
        n \in ExpeditionNames, e \in EventNames, v \in TimerValues}

\* vectors of at most n distinct elements of S
SeqsUpTo(S, n) ==
    {q \in UNION {[1..k -> S] : k \in 0..n} :
        \A i, j \in DOMAIN q : i # j => q[i] # q[j]}

\* vectors of lockouts of one expedition: they share the expedition name and
\* hold one lockout per event
LockoutBatches ==
    {b \in SeqsUpTo(LockoutTimers, MaxBatch) :
        \A i, j \in DOMAIN b :
            /\ b[i].expedition_name = b[j].expedition_name
            /\ i # j => b[i].event_name # b[j].event_name}

\* callers
ThreadIds == 1..MaxThreads

\* character_data: the character directory (id, name)
CharacterName(c) == <<"Aradune", "Brell", "Cazic", "Drinal">>[c + 1]
character_data == {[id |-> c, name |-> CharacterName(c)] : c \in CharIds}

\* ExpeditionMember values (char_id, name)
ExpeditionMembers == {[char_id |-> r.id, name |-> r.name] : r \in character_data}
MemberBatches == SeqsUpTo(ExpeditionMembers, MaxBatch)

(* ------------------------------- state -------------------------------- *)
VARIABLES
    expedition_character_lockouts, \* table: rows of per-character lockouts
    expedition_members,            \* table: rows (expedition_id, character_id)
    call,                          \* the call in progress, or NoCall
    ret,                           \* what the call returns
    before,                        \* the table as the call found it
    history,                       \* membership calls made so far
    threads,                       \* concurrent callers: position and statement
    expedition_details,            \* table: rows (id, expedition_name, leader_id)
    expedition_lockouts,           \* table: rows of per-expedition lockouts
    queries                        \* statements the call handed to QueryDatabase,
                                   \* kept where the service may report failure

vars == <<expedition_character_lockouts, expedition_members, call, ret,
          before, history, threads, expedition_details, expedition_lockouts,
          queries>>

\* the tables and what is about them that the operations of one store leave alone
records == <<expedition_details, expedition_lockouts, queries>>

NoCall == [name |-> "idle"]
Void == "void"

(* ----------------------- storage engine semantics --------------------- *)
\* unique key of expedition_character_lockouts
CharacterLockoutKey(r) == <<r.character_id, r.expedition_name, r.event_name>>

\* column default of is_pending
IsPendingDefault == FALSE

\* FROM_UNIXTIME / UNIX_TIMESTAMP on timestamps within the DATETIME range
FROM_UNIXTIME(t) == [datetime |-> t]
UNIX_TIMESTAMP(d) == d.datetime

\* ON DUPLICATE KEY UPDATE clause of the lockout inserts: row r is the stored
\* row, v the VALUES() row of the statement
\* faulty variant: the replace clause without duration = VALUES(duration)
OnDuplicateReplaceTimerStaleDuration(r, v) ==
    [r EXCEPT !.from_expedition_uuid = v.from_expedition_uuid,
              !.expire_time = v.expire_time]

OnDuplicateReplaceTimer(r, v) ==
    [r EXCEPT !.from_expedition_uuid = v.from_expedition_uuid,
              !.expire_time = v.expire_time,
              !.duration = v.duration]

\* faulty variant: the preserve clause also takes the new expire_time
OnDuplicateKeepTimerExtends(r, v) ==
    [r EXCEPT !.character_id = v.character_id, !.expire_time = v.expire_time]

OnDuplicateKeepTimer(r, v) == [r EXCEPT !.character_id = v.character_id]

\* faulty variant: the clause also takes is_pending from the VALUES row
OnDuplicateKeyUpdateSetsPending(r, v, replace_timer) ==
    IF replace_timer
    THEN [OnDuplicateReplaceTimer(r, v) EXCEPT !.is_pending = v.is_pending]
    ELSE [OnDuplicateKeepTimer(r, v) EXCEPT !.is_pending = v.is_pending]

OnDuplicateKeyUpdate(r, v, replace_timer) ==
    IF replace_timer THEN OnDuplicateReplaceTimer(r, v) ELSE OnDuplicateKeepTimer(r, v)

\* one VALUES row of INSERT ... ON DUPLICATE KEY UPDATE
InsertOrUpdateRow(table, v, replace_timer) ==
    LET dup == {r \in table : CharacterLockoutKey(r) = CharacterLockoutKey(v)}
    IN  IF dup = {} THEN table \cup {v}
        ELSE (table \ dup) \cup {OnDuplicateKeyUpdate(r, v, replace_timer) : r \in dup}

\* the VALUES rows of one statement are applied in order
RECURSIVE InsertOrUpdateRows(_, _, _)
InsertOrUpdateRows(table, values, replace_timer) ==
    IF values = <<>> THEN table
    ELSE InsertOrUpdateRows(InsertOrUpdateRow(table, Head(values), replace_timer),
                            Tail(values), replace_timer)

(* --------------------------- lockout writes --------------------------- *)
\* VALUES row built by InsertCharacterLockouts for one lockout
CharacterLockoutValues(character_id, lockout, is_pending) ==
    [character_id |-> character_id,
     expire_time |-> FROM_UNIXTIME(lockout.expire_time),
     duration |-> lockout.duration,
     from_expedition_uuid |-> lockout.expedition_uuid,
     expedition_name |-> lockout.expedition_name,
     event_name |-> lockout.event_name,
     is_pending |-> is_pending]

\* the statement InsertCharacterLockouts formats from its arguments
InsertCharacterLockoutsStatement(character_id, lockouts, replace_timer, is_pending) ==
    [values |-> [i \in DOMAIN lockouts |->
                    CharacterLockoutValues(character_id, lockouts[i], is_pending)],
     replace_timer |-> replace_timer]

\* the statement InsertMembersLockout formats from its arguments; it names no
\* is_pending column
InsertMembersLockoutStatement(members, lockout) ==
    [values |-> [i \in DOMAIN members |->
                    CharacterLockoutValues(members[i].char_id, lockout, IsPendingDefault)],
     replace_timer |-> TRUE]

\* faulty variant: rows are inserted without the conflict clause being applied
QueryDatabaseInsertOnly(table, statement) ==
    table \cup {statement.values[i] : i \in DOMAIN statement.values}

\* QueryDatabase on a formatted lockout insert
QueryDatabase(table, statement) ==
    InsertOrUpdateRows(table, statement.values, statement.replace_timer)

\* table after InsertCharacterLockouts: no statement for an empty vector
InsertCharacterLockoutsTable(table, character_id, lockouts, replace_timer, is_pending) ==
    IF lockouts = <<>> THEN table
    ELSE QueryDatabase(table,
            InsertCharacterLockoutsStatement(character_id, lockouts,
                                             replace_timer, is_pending))

\* table after InsertMembersLockout: no statement for an empty vector
InsertMembersLockoutTable(table, members, lockout) ==
    IF members = <<>> THEN table
    ELSE QueryDatabase(table, InsertMembersLockoutStatement(members, lockout))

\* faulty variant: the update without the expedition_name filter
AssignPendingLockoutsAnyName(table, character_id, expedition_name) ==
    {IF r.character_id = character_id /\ r.is_pending = TRUE
     THEN [r EXCEPT !.is_pending = FALSE] ELSE r : r \in table}

\* table after AssignPendingLockouts
AssignPendingLockoutsTable(table, character_id, expedition_name) ==
    {IF r.character_id = character_id /\ r.is_pending = TRUE
        /\ r.expedition_name = expedition_name
     THEN [r EXCEPT !.is_pending = FALSE] ELSE r : r \in table}

\* faulty variant: the delete without the pending filter
DeletePendingLockoutsAnyRow(table, character_id) ==
    {r \in table : ~(r.character_id = character_id)}

\* table after DeletePendingLockouts
DeletePendingLockoutsTable(table, character_id) ==
    {r \in table : ~(r.character_id = character_id /\ r.is_pending = TRUE)}

\* table after DeleteAllMembersPendingLockouts
DeleteAllMembersPendingLockoutsTable(table, members) ==
    IF members = <<>> THEN table
    ELSE {r \in table :
            ~(r.character_id \in {members[i].char_id : i \in DOMAIN members}
              /\ r.is_pending = TRUE)}

\* table after DeleteAllCharacterLockouts(character_id)
DeleteAllCharacterLockoutsTable(table, character_id) ==
    IF character_id # 0
    THEN {r \in table : ~(r.character_id = character_id)}
    ELSE table

\* table after DeleteAllCharacterLockouts(character_id, expedition_name)
DeleteAllCharacterLockoutsForTable(table, character_id, expedition_name) ==
    IF character_id # 0 /\ expedition_name # ""
    THEN {r \in table :
            ~(r.character_id = character_id /\ r.expedition_name = expedition_name)}
    ELSE table

\* faulty variant: the event-level delete without the pending filter
DeleteCharacterLockoutAnyRow(table, character_id, expedition_name, event_name) ==
    {r \in table :
        ~(r.character_id = character_id
          /\ r.expedition_name = expedition_name /\ r.event_name = event_name)}

\* table after DeleteCharacterLockout
DeleteCharacterLockoutTable(table, character_id, expedition_name, event_name) ==
    {r \in table :
        ~(r.character_id = character_id /\ r.is_pending = FALSE
          /\ r.expedition_name = expedition_name /\ r.event_name = event_name)}

\* table after DeleteMembersLockout
DeleteMembersLockoutTable(table, members, expedition_name, event_name) ==
    IF members = <<>> THEN table
    ELSE {r \in table :
            ~(r.character_id \in {members[i].char_id : i \in DOMAIN members}
              /\ r.is_pending = FALSE
              /\ r.expedition_name = expedition_name /\ r.event_name = event_name)}

(* ---------------------------- lockout reads --------------------------- *)
\* the ExpeditionLockoutTimer built from a selected row
LockoutFromRow(r) ==
    [expedition_uuid |-> r.from_expedition_uuid,
     expedition_name |-> r.expedition_name,
     event_name |-> r.event_name,
     expire_time |-> UNIX_TIMESTAMP(r.expire_time),
     duration |-> r.duration]

\* rows selected by LoadCharacterLockouts(character_id) at NOW() = t
LoadCharacterLockoutsRows(table, character_id, t) ==
    {r \in table : r.character_id = character_id /\ r.is_pending = FALSE
                   /\ UNIX_TIMESTAMP(r.expire_time) > t}

LoadCharacterLockouts(table, character_id, t) ==
    {LockoutFromRow(r) : r \in LoadCharacterLockoutsRows(table, character_id, t)}

\* faulty variant: expire_time >= NOW()
LoadCharacterLockoutsForRowsInclusive(table, character_id, expedition_name, t) ==
    {r \in table : r.character_id = character_id /\ r.is_pending = FALSE
                   /\ UNIX_TIMESTAMP(r.expire_time) >= t
                   /\ r.expedition_name = expedition_name}

\* rows selected by LoadCharacterLockouts(character_id, expedition_name)
LoadCharacterLockoutsForRows(table, character_id, expedition_name, t) ==
    {r \in table : r.character_id = character_id /\ r.is_pending = FALSE
                   /\ UNIX_TIMESTAMP(r.expire_time) > t
                   /\ r.expedition_name = expedition_name}

LoadCharacterLockoutsFor(table, character_id, expedition_name, t) ==
    {[LockoutFromRow(r) EXCEPT !.expedition_name = expedition_name] :
        r \in LoadCharacterLockoutsForRows(table, character_id, expedition_name, t)}


(* --------------------------- validation read -------------------------- *)
\* a column of a result row: NULL, or a value
NULL == <<>>
Value(v) == <<v>>

\* faulty variant: the lockout join without the pending filter
LoadMembersForCreateRequestAnyPending(lockouts, members, character_names, expedition_name, t) ==
    IF character_names = <<>> THEN {}
    ELSE
    UNION {
        LET lockout == {r \in lockouts :
                            r.character_id = cd.id
                            /\ UNIX_TIMESTAMP(r.expire_time) > t
                            /\ r.expedition_name = expedition_name}
            member == {m \in members : m.character_id = cd.id}
            lockout_columns ==
                IF lockout = {}
                THEN {[from_expedition_uuid |-> NULL, expire_time |-> NULL,
                       duration |-> NULL, event_name |-> NULL]}
                ELSE {[from_expedition_uuid |-> Value(r.from_expedition_uuid),
                       expire_time |-> Value(UNIX_TIMESTAMP(r.expire_time)),
                       duration |-> Value(r.duration),
                       event_name |-> Value(r.event_name)] : r \in lockout}
            member_columns ==
                IF member = {} THEN {NULL} ELSE {Value(m.expedition_id) : m \in member}
        IN  {[id |-> cd.id, name |-> cd.name, expedition_id |-> e,
              from_expedition_uuid |-> l.from_expedition_uuid,
              expire_time |-> l.expire_time,
              duration |-> l.duration,
              event_name |-> l.event_name] :
                l \in lockout_columns, e \in member_columns}
        : cd \in {d \in character_data :
                    d.name \in {character_names[i] : i \in DOMAIN character_names}}}

\* rows of LoadMembersForCreateRequest: character_data LEFT JOIN the active
\* lockouts of expedition_name LEFT JOIN expedition_members
LoadMembersForCreateRequest(lockouts, members, character_names, expedition_name, t) ==
    IF character_names = <<>> THEN {}
    ELSE
    UNION {
        LET lockout == {r \in lockouts :
                            r.character_id = cd.id /\ r.is_pending = FALSE
                            /\ UNIX_TIMESTAMP(r.expire_time) > t
                            /\ r.expedition_name = expedition_name}
            member == {m \in members : m.character_id = cd.id}
            lockout_columns ==
                IF lockout = {}
                THEN {[from_expedition_uuid |-> NULL, expire_time |-> NULL,
                       duration |-> NULL, event_name |-> NULL]}
                ELSE {[from_expedition_uuid |-> Value(r.from_expedition_uuid),
                       expire_time |-> Value(UNIX_TIMESTAMP(r.expire_time)),
                       duration |-> Value(r.duration),
                       event_name |-> Value(r.event_name)] : r \in lockout}
            member_columns ==
                IF member = {} THEN {NULL} ELSE {Value(m.expedition_id) : m \in member}
        IN  {[id |-> cd.id, name |-> cd.name, expedition_id |-> e,
              from_expedition_uuid |-> l.from_expedition_uuid,
              expire_time |-> l.expire_time,
              duration |-> l.duration,
              event_name |-> l.event_name] :
                l \in lockout_columns, e \in member_columns}
        : cd \in {d \in character_data :
                    d.name \in {character_names[i] : i \in DOMAIN character_names}}}

\* vectors of character names handed to the validation read
NameBatches == SeqsUpTo({r.name : r \in character_data}, MaxBatch)

(* ------------------------- lockout store actions ---------------------- *)
Idle == call = NoCall

\* a write of the lockout table: the statement, the call record, no result
WriteLockouts(table, c) ==
    /\ Cardinality(table) <= MaxRows
    /\ expedition_character_lockouts' = table
    /\ call' = c
    /\ ret' = Void
    /\ before' = expedition_character_lockouts
    /\ UNCHANGED <<expedition_members, history, threads, records>>

\* a read of the lockout table
ReadLockouts(result, c) ==
    /\ call' = c
    /\ ret' = result
    /\ before' = expedition_character_lockouts
    /\ UNCHANGED <<expedition_character_lockouts, expedition_members,
                   history, threads, records>>

InsertCharacterLockouts ==
    \E character_id \in CharIds, lockouts \in LockoutBatches,
       replace_timer \in BOOLEAN, is_pending \in BOOLEAN :
        /\ Idle
        /\ WriteLockouts(
            InsertCharacterLockoutsTable(expedition_character_lockouts,
                character_id, lockouts, replace_timer, is_pending),
            [name |-> "InsertCharacterLockouts", character_id |-> character_id,
             lockouts |-> lockouts, replace_timer |-> replace_timer,
             is_pending |-> is_pending])

InsertMembersLockout ==
    \E members \in MemberBatches, lockout \in LockoutTimers :
        /\ Idle
        /\ WriteLockouts(
            InsertMembersLockoutTable(expedition_character_lockouts, members, lockout),
            [name |-> "InsertMembersLockout", members |-> members,
             lockout |-> lockout])

AssignPendingLockouts ==
    \E character_id \in CharIds, expedition_name \in ExpeditionNames :
        /\ Idle
        /\ WriteLockouts(
            AssignPendingLockoutsTable(expedition_character_lockouts,
                character_id, expedition_name),
            [name |-> "AssignPendingLockouts", character_id |-> character_id,
             expedition_name |-> expedition_name])

DeletePendingLockouts ==
    \E character_id \in CharIds :
        /\ Idle
        /\ WriteLockouts(
            DeletePendingLockoutsTable(expedition_character_lockouts, character_id),
            [name |-> "DeletePendingLockouts", character_id |-> character_id])

DeleteAllMembersPendingLockouts ==
    \E members \in MemberBatches :
        /\ Idle
        /\ WriteLockouts(
            DeleteAllMembersPendingLockoutsTable(expedition_character_lockouts, members),
            [name |-> "DeleteAllMembersPendingLockouts", members |-> members])

DeleteAllCharacterLockouts ==
    \E character_id \in CharIds :
        /\ Idle
        /\ WriteLockouts(
            DeleteAllCharacterLockoutsTable(expedition_character_lockouts, character_id),
            [name |-> "DeleteAllCharacterLockouts", character_id |-> character_id])

DeleteAllCharacterLockoutsFor ==
    \E character_id \in CharIds, expedition_name \in ExpeditionNames \cup {""} :
        /\ Idle
        /\ WriteLockouts(
            DeleteAllCharacterLockoutsForTable(expedition_character_lockouts,
                character_id, expedition_name),
            [name |-> "DeleteAllCharacterLockoutsFor", character_id |-> character_id,
             expedition_name |-> expedition_name])

DeleteCharacterLockout ==
    \E character_id \in CharIds, expedition_name \in ExpeditionNames,
       event_name \in EventNames :
        /\ Idle
        /\ WriteLockouts(
            DeleteCharacterLockoutTable(expedition_character_lockouts,
                character_id, expedition_name, event_name),
            [name |-> "DeleteCharacterLockout", character_id |-> character_id,
             expedition_name |-> expedition_name, event_name |-> event_name])

DeleteMembersLockout ==
    \E members \in MemberBatches, expedition_name \in ExpeditionNames,
       event_name \in EventNames :
        /\ Idle
        /\ WriteLockouts(
            DeleteMembersLockoutTable(expedition_character_lockouts,
                members, expedition_name, event_name),
            [name |-> "DeleteMembersLockout", members |-> members,
             expedition_name |-> expedition_name, event_name |-> event_name])

LoadCharacterLockoutsCall ==
    \E character_id \in CharIds, t \in Times :
        /\ Idle
        /\ ReadLockouts(
            LoadCharacterLockouts(expedition_character_lockouts, character_id, t),
            [name |-> "LoadCharacterLockouts", character_id |-> character_id,
             now |-> t])

LoadCharacterLockoutsForCall ==
    \E character_id \in CharIds, expedition_name \in ExpeditionNames, t \in Times :
        /\ Idle
        /\ ReadLockouts(
            LoadCharacterLockoutsFor(expedition_character_lockouts,
                character_id, expedition_name, t),
            [name |-> "LoadCharacterLockoutsFor", character_id |-> character_id,
             expedition_name |-> expedition_name, now |-> t])

LoadMembersForCreateRequestCall ==
    \E character_names \in NameBatches, expedition_name \in ExpeditionNames,
       t \in Times :
        /\ Idle
        /\ ReadLockouts(
            LoadMembersForCreateRequest(expedition_character_lockouts,
                expedition_members, character_names, expedition_name, t),
            [name |-> "LoadMembersForCreateRequest",
             character_names |-> character_names,
             expedition_name |-> expedition_name, now |-> t])

\* the call returns to its caller
Return ==
    /\ ~Idle
    /\ call' = NoCall
    /\ ret' = Void
    /\ before' = {}
    /\ queries' = <<>>
    /\ UNCHANGED <<expedition_character_lockouts, expedition_members,
                   history, threads, expedition_details, expedition_lockouts>>

Init ==
    /\ expedition_character_lockouts = {}
    /\ expedition_members = {}
    /\ call = NoCall
    /\ ret = Void
    /\ before = {}
    /\ history = <<>>
    /\ threads = [t \in ThreadIds |-> [pc |-> "idle"]]
    /\ expedition_details = {}
    /\ expedition_lockouts = {}
    /\ queries = <<>>

Next ==
    \/ InsertCharacterLockouts
    \/ InsertMembersLockout
    \/ AssignPendingLockouts
    \/ DeletePendingLockouts
    \/ DeleteAllMembersPendingLockouts
    \/ DeleteAllCharacterLockouts
    \/ DeleteAllCharacterLockoutsFor
    \/ DeleteCharacterLockout
    \/ DeleteMembersLockout
    \/ LoadCharacterLockoutsCall
    \/ LoadCharacterLockoutsForCall
    \/ LoadMembersForCreateRequestCall
    \/ Return

\* the lockout store: every operation on expedition_character_lockouts
Spec == Init /\ [][Next]_vars


(* --------------------------- membership store ------------------------- *)
\* unique key of expedition_members
ExpeditionMemberKey(r) == r.character_id

\* faulty variant: the conflict clause moves the character to the new expedition
InsertMemberMoves(table, expedition_id, character_id) ==
    {r \in table : r.character_id # character_id}
        \cup {[expedition_id |-> expedition_id, character_id |-> character_id]}

\* table after InsertMember: INSERT ... ON DUPLICATE KEY UPDATE
\* character_id = VALUES(character_id)
InsertMemberTable(table, expedition_id, character_id) ==
    LET v == [expedition_id |-> expedition_id, character_id |-> character_id]
        dup == {r \in table : ExpeditionMemberKey(r) = ExpeditionMemberKey(v)}
    IN  IF dup = {} THEN table \cup {v}
        ELSE (table \ dup) \cup {[r EXCEPT !.character_id = v.character_id] : r \in dup}

\* a plain multi-row INSERT: a duplicate key fails the statement
RECURSIVE InsertRows(_, _)
InsertRows(table, values) ==
    IF values = <<>> THEN [success |-> TRUE, table |-> table]
    ELSE IF \E r \in table : ExpeditionMemberKey(r) = ExpeditionMemberKey(Head(values))
         THEN [success |-> FALSE, table |-> table]
         ELSE InsertRows(table \cup {Head(values)}, Tail(values))

\* table after InsertMembers: the failed statement inserts no row
InsertMembersTable(table, expedition_id, members) ==
    IF members = <<>> THEN table
    ELSE LET results ==
                InsertRows(table,
                    [i \in DOMAIN members |->
                        [expedition_id |-> expedition_id,
                         character_id |-> members[i].char_id]])
         IN  IF results.success THEN results.table ELSE table

\* table after DeleteMember
DeleteMemberTable(table, expedition_id, character_id) ==
    {r \in table :
        ~(r.expedition_id = expedition_id /\ r.character_id = character_id)}

\* table after DeleteAllMembers
DeleteAllMembersTable(table, expedition_id) ==
    {r \in table : ~(r.expedition_id = expedition_id)}

\* faulty variant: RowCount() > 1
GetExpeditionIDFromCharacterIDSeveral(table, character_id) ==
    LET results == {r \in table : r.character_id = character_id}
    IN  IF Cardinality(results) > 1
        THEN {r.expedition_id : r \in results}
        ELSE {0}

\* the values GetExpeditionIDFromCharacterID can return: the first selected
\* row's expedition_id, 0 without a row
GetExpeditionIDFromCharacterID(table, character_id) ==
    LET results == {r \in table : r.character_id = character_id}
    IN  IF Cardinality(results) > 0
        THEN {r.expedition_id : r \in results}
        ELSE {0}

\* a write of the membership table, recorded in the history
WriteMembers(table, c) ==
    /\ Len(history) < MaxHistory
    /\ expedition_members' = table
    /\ call' = c
    /\ ret' = Void
    /\ before' = expedition_members
    /\ history' = Append(history, c)
    /\ UNCHANGED <<expedition_character_lockouts, threads, records>>

InsertMember ==
    \E expedition_id \in ExpeditionIds, character_id \in CharIds :
        /\ Idle
        /\ WriteMembers(
            InsertMemberTable(expedition_members, expedition_id, character_id),
            [name |-> "InsertMember", expedition_id |-> expedition_id,
             character_id |-> character_id])

InsertMembers ==
    \E expedition_id \in ExpeditionIds, members \in MemberBatches :
        /\ Idle
        /\ WriteMembers(
            InsertMembersTable(expedition_members, expedition_id, members),
            [name |-> "InsertMembers", expedition_id |-> expedition_id,
             members |-> members])

DeleteMember ==
    \E expedition_id \in ExpeditionIds, character_id \in CharIds :
        /\ Idle
        /\ WriteMembers(
            DeleteMemberTable(expedition_members, expedition_id, character_id),
            [name |-> "DeleteMember", expedition_id |-> expedition_id,
             character_id |-> character_id])

DeleteAllMembers ==
    \E expedition_id \in ExpeditionIds :
        /\ Idle
        /\ WriteMembers(
            DeleteAllMembersTable(expedition_members, expedition_id),
            [name |-> "DeleteAllMembers", expedition_id |-> expedition_id])

GetExpeditionIDFromCharacterIDCall ==
    \E character_id \in CharIds :
        \E expedition_id \in
                GetExpeditionIDFromCharacterID(expedition_members, character_id) :
            /\ Idle
            /\ call' = [name |-> "GetExpeditionIDFromCharacterID",
                        character_id |-> character_id]
            /\ ret' = expedition_id
            /\ before' = expedition_members
            /\ UNCHANGED <<expedition_character_lockouts, expedition_members,
                           history, threads, records>>

NextMembers ==
    \/ InsertMember
    \/ InsertMembers
    \/ DeleteMember
    \/ DeleteAllMembers
    \/ GetExpeditionIDFromCharacterIDCall
    \/ Return

\* the membership store: every operation on expedition_members
SpecMembers == Init /\ [][NextMembers]_vars


(* --------------------------- concurrent merges ------------------------ *)
\* the triple the concurrent callers write
SharedLockouts ==
    {l \in LockoutTimers : l.expedition_name = "Solteris" /\ l.event_name = "boss1"}
SharedMember == CHOOSE m \in ExpeditionMembers : m.char_id = 1

\* thread t formats its statement; no table is read
Format(t, statement) ==
    /\ threads[t].pc = "idle"
    /\ threads' = [threads EXCEPT ![t] = [pc |-> "formatted", statement |-> statement]]
    /\ UNCHANGED <<expedition_character_lockouts, expedition_members, call, ret,
                   before, history, records>>

FormatInsertCharacterLockouts ==
    \E t \in ThreadIds, lockout \in SharedLockouts,
       replace_timer \in BOOLEAN, is_pending \in BOOLEAN :
        Format(t, InsertCharacterLockoutsStatement(SharedMember.char_id,
                    <<lockout>>, replace_timer, is_pending))

FormatInsertMembersLockout ==
    \E t \in ThreadIds, lockout \in SharedLockouts :
        Format(t, InsertMembersLockoutStatement(<<SharedMember>>, lockout))

\* thread t's statement is executed by the storage engine
Execute ==
    \E t \in ThreadIds :
        /\ threads[t].pc = "formatted"
        /\ expedition_character_lockouts' =
                QueryDatabase(expedition_character_lockouts, threads[t].statement)
        /\ threads' = [threads EXCEPT ![t].pc = "done"]
        /\ UNCHANGED <<expedition_members, call, ret, before, history, records>>

NextConcurrent ==
    \/ FormatInsertCharacterLockouts
    \/ FormatInsertMembersLockout
    \/ Execute

\* concurrent callers of the two merge operations on one triple
SpecConcurrent == Init /\ [][NextConcurrent]_vars


(* ============================== claims ================================ *)
\* rows of a lockout table stored for the triple (c, n, e)
RowsOfTriple(table, c, n, e) ==
    {r \in table : CharacterLockoutKey(r) = <<c, n, e>>}

\* row r carries the source uuid, expiration and duration of lockout l
CarriesTimer(r, l) ==
    /\ r.from_expedition_uuid = l.expedition_uuid
    /\ UNIX_TIMESTAMP(r.expire_time) = l.expire_time
    /\ r.duration = l.duration

\* lockout l of character c is reported by an active-lockout read at time t
ReturnedByActiveRead(table, c, l, t) ==
    \/ l \in LoadCharacterLockouts(table, c, t)
    \/ l \in LoadCharacterLockoutsFor(table, c, l.expedition_name, t)
    \/ \E names \in NameBatches :
         \E row \in LoadMembersForCreateRequest(table, expedition_members, names,
                                                l.expedition_name, t) :
            /\ row.id = c
            /\ row.event_name = Value(l.event_name)
            /\ row.from_expedition_uuid = Value(l.expedition_uuid)
            /\ row.expire_time = Value(l.expire_time)
            /\ row.duration = Value(l.duration)

\* the calls that write expedition_character_lockouts
LockoutWrites ==
    {"InsertCharacterLockouts", "InsertMembersLockout", "AssignPendingLockouts",
     "DeletePendingLockouts", "DeleteAllMembersPendingLockouts",
     "DeleteAllCharacterLockouts", "DeleteAllCharacterLockoutsFor",
     "DeleteCharacterLockout", "DeleteMembersLockout"}

\* C1: pending exclusion.  After InsertCharacterLockouts(c, lockouts,
\* replace_timer, is_pending = TRUE) no active-lockout read, at any time,
\* reports a written lockout (its uuid, expiration and duration for its
\* triple) that it did not report before the call, for both values of
\* replace_timer and whatever rows c had; and a stored pending row becomes
\* non-pending only by AssignPendingLockouts for its character and
\* expedition name.
C1_PendingExclusion ==
    /\ (call.name = "InsertCharacterLockouts" /\ call.is_pending) =>
          \A i \in DOMAIN call.lockouts, t \in Times :
             \/ ReturnedByActiveRead(before, call.character_id, call.lockouts[i], t)
             \/ ~ReturnedByActiveRead(expedition_character_lockouts,
                                      call.character_id, call.lockouts[i], t)
    /\ call.name \in LockoutWrites =>
          \A r \in before, r2 \in expedition_character_lockouts :
             (CharacterLockoutKey(r) = CharacterLockoutKey(r2)
              /\ r.is_pending /\ ~r2.is_pending) =>
                /\ call.name = "AssignPendingLockouts"
                /\ call.character_id = r.character_id
                /\ call.expedition_name = r.expedition_name


\* C2: merge with replace.  After InsertCharacterLockouts with
\* replace_timer = TRUE the table holds exactly one row for each written
\* triple, carrying the uuid, expiration and duration of the call; the same
\* call repeated changes nothing.
C2_MergeReplace ==
    (call.name = "InsertCharacterLockouts" /\ call.replace_timer) =>
        /\ \A i \in DOMAIN call.lockouts :
              LET l == call.lockouts[i]
                  rows == RowsOfTriple(expedition_character_lockouts,
                              call.character_id, l.expedition_name, l.event_name)
              IN  /\ Cardinality(rows) = 1
                  /\ \A r \in rows : CarriesTimer(r, l)
        /\ InsertCharacterLockoutsTable(expedition_character_lockouts,
              call.character_id, call.lockouts, call.replace_timer,
              call.is_pending) = expedition_character_lockouts

\* C2 witness: a replace call has re-written a stored triple whose expiration
\* was earlier, and the triple still has one row, with the later expiration
C2_Witness ==
    /\ call.name = "InsertCharacterLockouts"
    /\ call.replace_timer
    /\ \E i \in DOMAIN call.lockouts :
          LET l == call.lockouts[i] IN
          /\ \E r \in RowsOfTriple(before, call.character_id,
                                   l.expedition_name, l.event_name) :
                UNIX_TIMESTAMP(r.expire_time) < l.expire_time
          /\ \E r \in RowsOfTriple(expedition_character_lockouts, call.character_id,
                                   l.expedition_name, l.event_name) :
                CarriesTimer(r, l)

\* C3: merge with preserve.  InsertCharacterLockouts with replace_timer =
\* FALSE leaves every stored row as it was, adds no second row for a triple,
\* and creates a row exactly for the lockouts whose triple was not stored.
C3_MergePreserve ==
    (call.name = "InsertCharacterLockouts" /\ ~call.replace_timer) =>
        /\ before \subseteq expedition_character_lockouts
        /\ \A r \in expedition_character_lockouts \ before :
              /\ RowsOfTriple(before, r.character_id, r.expedition_name,
                              r.event_name) = {}
              /\ r.character_id = call.character_id
              /\ r.is_pending = call.is_pending
              /\ \E i \in DOMAIN call.lockouts :
                    /\ r.expedition_name = call.lockouts[i].expedition_name
                    /\ r.event_name = call.lockouts[i].event_name
                    /\ CarriesTimer(r, call.lockouts[i])
        /\ \A i \in DOMAIN call.lockouts :
              Cardinality(RowsOfTriple(expedition_character_lockouts,
                  call.character_id, call.lockouts[i].expedition_name,
                  call.lockouts[i].event_name)) = 1

\* C3 witness: one lockout of a preserve call hit a stored row with another
\* timer, which is still stored, and another lockout of the call made a row
C3_Witness ==
    /\ call.name = "InsertCharacterLockouts"
    /\ ~call.replace_timer
    /\ \E i, j \in DOMAIN call.lockouts :
          /\ \E r \in RowsOfTriple(before, call.character_id,
                        call.lockouts[i].expedition_name,
                        call.lockouts[i].event_name) :
                ~CarriesTimer(r, call.lockouts[i])
                /\ r \in expedition_character_lockouts
          /\ RowsOfTriple(before, call.character_id,
                call.lockouts[j].expedition_name,
                call.lockouts[j].event_name) = {}
          /\ RowsOfTriple(expedition_character_lockouts, call.character_id,
                call.lockouts[j].expedition_name,
                call.lockouts[j].event_name) # {}

\* the lockout a reader builds from row r
AsLockout(r) ==
    [expedition_uuid |-> r.from_expedition_uuid,
     expedition_name |-> r.expedition_name,
     event_name |-> r.event_name,
     expire_time |-> r.expire_time.datetime,
     duration |-> r.duration]

\* every active-lockout read of character c at time t reports lockout l
ReturnedByEveryActiveRead(table, c, l, t) ==
    /\ l \in LoadCharacterLockouts(table, c, t)
    /\ l \in LoadCharacterLockoutsFor(table, c, l.expedition_name, t)
    /\ \A names \in NameBatches :
         (\E k \in DOMAIN names : names[k] = CharacterName(c)) =>
            \E row \in LoadMembersForCreateRequest(table, expedition_members, names,
                                                   l.expedition_name, t) :
               /\ row.id = c
               /\ row.event_name = Value(l.event_name)
               /\ row.from_expedition_uuid = Value(l.expedition_uuid)
               /\ row.expire_time = Value(l.expire_time)
               /\ row.duration = Value(l.duration)

UniqueTriples(table) ==
    \A r1, r2 \in table :
        CharacterLockoutKey(r1) = CharacterLockoutKey(r2) => r1 = r2

\* the rows AssignPendingLockouts(c, n) is to promote
PendingRows(table, c, n) ==
    {r \in table : r.character_id = c /\ r.expedition_name = n /\ r.is_pending}

\* C4: promotion is an update.  The lockout table never holds two rows for a
\* triple; AssignPendingLockouts(c, n) clears is_pending on every pending row
\* of c with name n, changes no other row, inserts none, and every promoted
\* row that expires after t is reported by the active-lockout reads at t.
C4_PromotionIsUpdate ==
    /\ UniqueTriples(expedition_character_lockouts)
    /\ call.name = "AssignPendingLockouts" =>
          LET promoted == PendingRows(before, call.character_id, call.expedition_name)
          IN  /\ Cardinality(expedition_character_lockouts) = Cardinality(before)
              /\ \A r \in before \ promoted : r \in expedition_character_lockouts
              /\ \A r \in promoted :
                    /\ r \notin expedition_character_lockouts
                    /\ [r EXCEPT !.is_pending = FALSE] \in expedition_character_lockouts
                    /\ \A t \in Times :
                          r.expire_time.datetime > t =>
                             ReturnedByEveryActiveRead(expedition_character_lockouts,
                                call.character_id, AsLockout(r), t)

\* C4 witness: a promotion has cleared a pending row that is not yet expired
\* while a pending row of another expedition name stayed pending
C4_Witness ==
    /\ call.name = "AssignPendingLockouts"
    /\ \E r \in PendingRows(before, call.character_id, call.expedition_name) :
          r.expire_time.datetime > 0
    /\ \E r \in expedition_character_lockouts :
          r.is_pending /\ r.character_id = call.character_id

\* the calls that read expedition_character_lockouts
LockoutReads ==
    {"LoadCharacterLockouts", "LoadCharacterLockoutsFor",
     "LoadMembersForCreateRequest"}

\* C5: expiry boundary.  At time t the two per-character reads report a
\* stored non-pending row exactly when its expiration is greater than t, and
\* report nothing else; the reads delete nothing, so a row at or past its
\* expiration stays stored and unreported.
C5_ExpiryBoundary ==
    /\ \A c \in CharIds, t \in Times :
          /\ \A r \in expedition_character_lockouts :
                (r.character_id = c /\ ~r.is_pending) =>
                   /\ (AsLockout(r) \in LoadCharacterLockouts(
                          expedition_character_lockouts, c, t))
                        <=> (r.expire_time.datetime > t)
                   /\ (AsLockout(r) \in LoadCharacterLockoutsFor(
                          expedition_character_lockouts, c, r.expedition_name, t))
                        <=> (r.expire_time.datetime > t)
          /\ \A l \in LoadCharacterLockouts(expedition_character_lockouts, c, t) :
                l.expire_time > t
          /\ \A n \in ExpeditionNames :
                \A l \in LoadCharacterLockoutsFor(expedition_character_lockouts, c, n, t) :
                   /\ l.expire_time > t
                   /\ l.expedition_name = n
                   /\ \E r \in expedition_character_lockouts :
                         r.character_id = c /\ ~r.is_pending /\ AsLockout(r) = l
    /\ call.name \in LockoutReads => expedition_character_lockouts = before
    /\ call.name = "LoadCharacterLockouts" =>
          ret = LoadCharacterLockouts(expedition_character_lockouts,
                                      call.character_id, call.now)
    /\ call.name = "LoadCharacterLockoutsFor" =>
          ret = LoadCharacterLockoutsFor(expedition_character_lockouts,
                   call.character_id, call.expedition_name, call.now)

\* C5 witness: a read at the expiration instant of a stored non-pending row
\* does not report it, and reports another row that expires later
C5_Witness ==
    /\ call.name = "LoadCharacterLockoutsFor"
    /\ \E r \in expedition_character_lockouts :
          /\ r.character_id = call.character_id
          /\ r.expedition_name = call.expedition_name
          /\ ~r.is_pending
          /\ r.expire_time.datetime = call.now
          /\ AsLockout(r) \notin ret
    /\ ret # {}

\* C10: freshest timer wins.  After InsertMembersLockout(members, L), at each
\* time before L expires, LoadCharacterLockouts(m, L.expedition_name) reports
\* for every m of members exactly one lockout of event L.event_name, and it
\* is L, whatever row m had; rows of other characters are unchanged.
C10_FreshestTimerWins ==
    call.name = "InsertMembersLockout" =>
        LET L == call.lockout
            ids == {call.members[i].char_id : i \in DOMAIN call.members}
        IN  /\ \A m \in ids, t \in Times :
                  L.expire_time > t =>
                     {l \in LoadCharacterLockoutsFor(expedition_character_lockouts,
                                m, L.expedition_name, t) :
                         l.event_name = L.event_name} = {L}
            /\ \A r \in before :
                  r.character_id \notin ids => r \in expedition_character_lockouts
            /\ \A r \in expedition_character_lockouts :
                  r.character_id \notin ids => r \in before


\* a row of the table carries the timer of a VALUES row of thread t's statement
WrittenBy(r, t) ==
    /\ threads[t].pc = "done"
    /\ \E i \in DOMAIN threads[t].statement.values :
          LET v == threads[t].statement.values[i] IN
          /\ CharacterLockoutKey(v) = CharacterLockoutKey(r)
          /\ v.from_expedition_uuid = r.from_expedition_uuid
          /\ v.expire_time = r.expire_time
          /\ v.duration = r.duration

ConcurrentMergeInvariant ==
    /\ UniqueTriples(expedition_character_lockouts)
    /\ \A r \in expedition_character_lockouts : \E t \in ThreadIds : WrittenBy(r, t)

\* the step executes a statement that preserves on conflict
PreserveExecuted ==
    \E t \in ThreadIds :
        /\ threads[t].pc = "formatted"
        /\ threads'[t].pc = "done"
        /\ ~threads[t].statement.replace_timer

\* C6: concurrent merges.  Under every interleaving of callers that format and
\* execute InsertCharacterLockouts and InsertMembersLockout statements for one
\* triple, the table holds at most one row for the triple, the row's uuid,
\* expiration and duration are those of one executed statement, and a
\* statement that preserves on conflict changes no row stored before it.
C6_ConcurrentMerges ==
    [][/\ ConcurrentMergeInvariant'
       /\ PreserveExecuted =>
             expedition_character_lockouts \subseteq expedition_character_lockouts'
      ]_vars

\* C6 witness: two callers have executed statements with different timers for
\* the triple, one of them preserving, and one row is stored
C6_Witness ==
    \E t1, t2 \in ThreadIds :
        /\ t1 # t2
        /\ threads[t1].pc = "done"
        /\ threads[t2].pc = "done"
        /\ ~threads[t1].statement.replace_timer
        /\ threads[t2].statement.replace_timer
        /\ threads[t1].statement.values[1].from_expedition_uuid
              # threads[t2].statement.values[1].from_expedition_uuid
        /\ Cardinality(expedition_character_lockouts) = 1

\* rows of the membership table of character c
RowsOfCharacter(table, c) == {r \in table : r.character_id = c}

\* C7: membership uniqueness.  A character id is in at most one row of
\* expedition_members, and GetExpeditionIDFromCharacterID(c) returns that
\* row's expedition id, and 0 exactly when c has no row.
C7_MembershipUniqueness ==
    /\ \A c \in CharIds :
          LET rows == RowsOfCharacter(expedition_members, c)
              found == GetExpeditionIDFromCharacterID(expedition_members, c)
          IN  /\ Cardinality(rows) <= 1
              /\ Cardinality(found) = 1
              /\ (found = {0}) <=> (rows = {})
              /\ \A r \in rows : found = {r.expedition_id}
    /\ call.name = "GetExpeditionIDFromCharacterID" =>
          (ret = 0) <=> (RowsOfCharacter(expedition_members, call.character_id) = {})

\* C7 witness: the lookup returns the expedition of a character that a later
\* call tried to add to another expedition
C7_Witness ==
    /\ call.name = "GetExpeditionIDFromCharacterID"
    /\ ret # 0
    /\ \E k \in DOMAIN history :
          /\ history[k].name = "InsertMember"
          /\ history[k].character_id = call.character_id
          /\ history[k].expedition_id # ret

AddMemberCall(e, c) ==
    [name |-> "InsertMember", expedition_id |-> e, character_id |-> c]
RemoveMemberCall(e, c) ==
    [name |-> "DeleteMember", expedition_id |-> e, character_id |-> c]

\* C8 as claimed: after InsertMember(A, c), InsertMember(B, c) and
\* DeleteMember(A, c), A # B, the lookup of c returns B, whether the delete
\* ran before or after InsertMember(B, c).
C8_RemoveBeforeOrAfter ==
    \A A \in ExpeditionIds, B \in ExpeditionIds, c \in CharIds :
        (A # B
         /\ \/ history = <<AddMemberCall(A, c), AddMemberCall(B, c), RemoveMemberCall(A, c)>>
            \/ history = <<AddMemberCall(A, c), RemoveMemberCall(A, c), AddMemberCall(B, c)>>)
        => GetExpeditionIDFromCharacterID(expedition_members, c) = {B}

\* C8: membership exclusivity.  After InsertMember(A, c), DeleteMember(A, c),
\* InsertMember(B, c), A # B, the lookup of c returns B and c has the one row
\* (B, c); after InsertMember(A, c), InsertMember(B, c), DeleteMember(A, c)
\* the second insert has left c in A, so c has no row and the lookup returns
\* 0; in neither order does it return A or two expeditions.
C8_MembershipExclusivity ==
    \A A \in ExpeditionIds, B \in ExpeditionIds, c \in CharIds :
        A # B =>
          /\ history = <<AddMemberCall(A, c), RemoveMemberCall(A, c), AddMemberCall(B, c)>>
                => /\ GetExpeditionIDFromCharacterID(expedition_members, c) = {B}
                   /\ RowsOfCharacter(expedition_members, c)
                         = {[expedition_id |-> B, character_id |-> c]}
          /\ history = <<AddMemberCall(A, c), AddMemberCall(B, c), RemoveMemberCall(A, c)>>
                => /\ GetExpeditionIDFromCharacterID(expedition_members, c) = {0}
                   /\ RowsOfCharacter(expedition_members, c) = {}

\* C8 witness: the three calls were made with the delete in the middle and
\* the lookup of the character returns the second expedition
C8_Witness ==
    \E A \in ExpeditionIds, B \in ExpeditionIds, c \in CharIds :
        /\ A # B
        /\ history = <<AddMemberCall(A, c), RemoveMemberCall(A, c), AddMemberCall(B, c)>>
        /\ GetExpeditionIDFromCharacterID(expedition_members, c) = {B}

\* the characters a membership insert names
NamedCharacters(c) ==
    IF c.name = "InsertMember" THEN {c.character_id}
    ELSE {c.members[i].char_id : i \in DOMAIN c.members}

\* C9: idempotent member insert.  After InsertMember(e, c) or
\* InsertMembers(e, M), where each named character was in no expedition or
\* already in e, every named character has exactly one row and it is in e.
C9_IdempotentInsert ==
    (/\ call.name \in {"InsertMember", "InsertMembers"}
     /\ \A c \in NamedCharacters(call) :
           \A r \in RowsOfCharacter(before, c) : r.expedition_id = call.expedition_id)
    => \A c \in NamedCharacters(call) :
          RowsOfCharacter(expedition_members, c)
             = {[expedition_id |-> call.expedition_id, character_id |-> c]}

(* ------------------- validation read against the stores --------------- *)
\* the lockouts the validation read is compared on
ValidationTimers ==
    {l \in LockoutTimers :
        <<l.expedition_name, l.event_name, l.expedition_uuid>> \in
            {<<"Solteris", "boss1", "u1">>, <<"Solteris", "boss2", "u2">>,
             <<"Vxed", "boss1", "u2">>}}

\* the lockout tables InsertCharacterLockouts can leave: at most MaxRows rows,
\* one per triple, pending or not
ValidationLockoutTables ==
    {T \in SUBSET {CharacterLockoutValues(c, l, p) :
                      c \in CharIds, l \in ValidationTimers, p \in BOOLEAN} :
        /\ Cardinality(T) <= MaxRows
        /\ \A r1, r2 \in T :
              CharacterLockoutKey(r1) = CharacterLockoutKey(r2) => r1 = r2}

\* the membership tables InsertMember can leave: one row per character
ValidationMemberTables ==
    {T \in SUBSET {[expedition_id |-> e, character_id |-> c] :
                      e \in ExpeditionIds, c \in CharIds} :
        \A r1, r2 \in T :
            ExpeditionMemberKey(r1) = ExpeditionMemberKey(r2) => r1 = r2}

InitValidation ==
    /\ expedition_character_lockouts \in ValidationLockoutTables
    /\ expedition_members \in ValidationMemberTables
    /\ call = NoCall
    /\ ret = Void
    /\ before = {}
    /\ history = <<>>
    /\ threads = [t \in ThreadIds |-> [pc |-> "idle"]]
    /\ expedition_details = {}
    /\ expedition_lockouts = {}
    /\ queries = <<>>

NextValidation ==
    \/ LoadMembersForCreateRequestCall
    \/ LoadCharacterLockoutsForCall
    \/ GetExpeditionIDFromCharacterIDCall
    \/ Return

\* the three reads the create validation relies on, over stored tables
SpecValidation == InitValidation /\ [][NextValidation]_vars

\* rows the validation read reports for character c
CandidateRows(names, n, t, c) ==
    {row \in LoadMembersForCreateRequest(expedition_character_lockouts,
                expedition_members, names, n, t) : row.id = c}

\* (event name, source uuid, expiration, duration) of the reported lockouts
CandidateLockouts(rows) ==
    {<<row.event_name, row.from_expedition_uuid, row.expire_time, row.duration>> :
        row \in {x \in rows : x.event_name # NULL}}

\* current expedition ids of the reported rows, 0 for an absent one
CandidateExpeditions(rows) ==
    {IF row.expedition_id = NULL THEN 0 ELSE row.expedition_id[1] : row \in rows}

\* C11: the validation read agrees with the stores.  At the same NOW(), for
\* every character c whose name is among character_names, the lockouts
\* (event name, source uuid, expiration, duration) that
\* LoadMembersForCreateRequest reports for c are those returned by
\* LoadCharacterLockouts(c, expedition_name), the expedition id it reports is
\* what GetExpeditionIDFromCharacterID(c) returns, and a character with no
\* active lockout and no membership has one row with both absent.
C11_ValidationAgrees ==
    /\ \A names \in NameBatches, n \in ExpeditionNames, t \in Times, c \in CharIds :
          (\E k \in DOMAIN names : names[k] = CharacterName(c)) =>
             LET rows == CandidateRows(names, n, t, c)
                 active == LoadCharacterLockoutsFor(expedition_character_lockouts,
                                                    c, n, t)
                 found == GetExpeditionIDFromCharacterID(expedition_members, c)
             IN  /\ CandidateLockouts(rows) =
                       {<<Value(l.event_name), Value(l.expedition_uuid),
                          Value(l.expire_time), Value(l.duration)>> : l \in active}
                 /\ CandidateExpeditions(rows) = found
                 /\ rows # {}
                 /\ (active = {} /\ found = {0}) =>
                       rows = {[id |-> c, name |-> CharacterName(c),
                                expedition_id |-> NULL,
                                from_expedition_uuid |-> NULL,
                                expire_time |-> NULL, duration |-> NULL,
                                event_name |-> NULL]}
    /\ call.name = "LoadMembersForCreateRequest" =>
          /\ ret = LoadMembersForCreateRequest(expedition_character_lockouts,
                      expedition_members, call.character_names,
                      call.expedition_name, call.now)
          /\ \A row \in ret :
                \E k \in DOMAIN call.character_names :
                    call.character_names[k] = row.name

\* C11 witness: the validation read has reported, for one character, an active
\* lockout and a current expedition while that character also has a stored
\* pending or expired row of the expedition name, and for another character
\* one row with both absent
C11_Witness ==
    /\ call.name = "LoadMembersForCreateRequest"
    /\ \E row \in ret :
          /\ row.event_name # NULL
          /\ row.expedition_id # NULL
          /\ \E r \in expedition_character_lockouts :
                /\ r.character_id = row.id
                /\ r.expedition_name = call.expedition_name
                /\ r.is_pending \/ UNIX_TIMESTAMP(r.expire_time) <= call.now
    /\ \E row \in ret : row.event_name = NULL /\ row.expedition_id = NULL

(* ------------------ expedition records and their lockouts ------------- *)
\* everything stored, as a call finds it
Tables ==
    [expedition_character_lockouts |-> expedition_character_lockouts,
     expedition_members |-> expedition_members,
     expedition_details |-> expedition_details,
     expedition_lockouts |-> expedition_lockouts]

\* leader ids handed to InsertExpedition and UpdateLeaderID: the characters of
\* the directory and one id the directory does not hold
LeaderIds == CharIds \cup {2}

\* lockout timers an expedition holds: they carry the expedition's own name
ExpeditionLockoutTimers == {l \in LockoutTimers : l.expedition_name = "Solteris"}

\* the maps event name -> timer handed to InsertLockouts
LockoutMaps ==
    {m \in UNION {[E -> ExpeditionLockoutTimers] : E \in SUBSET EventNames} :
        /\ Cardinality(DOMAIN m) <= MaxBatch
        /\ \A e \in DOMAIN m : m[e].event_name = e}

\* vectors of expedition ids handed to LoadMultipleExpeditionLockouts
ExpeditionIdBatches == SeqsUpTo(ExpeditionIds, MaxBatch)

\* columns of expedition_details and of character_data
ExpeditionDetailsColumns ==
    {"id", "uuid", "instance_id", "expedition_name", "leader_id", "min_players",
     "max_players", "add_replay_on_join", "is_locked"}
CharacterDataColumns == {"id", "name"}

\* unique key of expedition_lockouts
ExpeditionLockoutKey(r) == <<r.expedition_id, r.event_name>>

\* AUTO_INCREMENT identity of the next expedition_details row
LastInsertedID(details) == Cardinality(details) + 1

\* expedition_details after the INSERT of InsertExpedition
InsertExpeditionTable(details, uuid, instance_id, expedition_name, leader_id, min_players, max_players) ==
    details \cup {[id |-> LastInsertedID(details), uuid |-> uuid,
                   instance_id |-> instance_id,
                   expedition_name |-> expedition_name, leader_id |-> leader_id,
                   min_players |-> min_players, max_players |-> max_players]}

\* faulty variant: the identity of the statement is returned whatever its outcome
InsertExpeditionResultUnchecked(success, last_inserted_id) == last_inserted_id

\* what InsertExpedition returns
InsertExpeditionResult(success, last_inserted_id) ==
    IF ~success THEN 0 ELSE last_inserted_id

\* expedition_details after UpdateLeaderID
UpdateLeaderIDTable(details, expedition_id, leader_id) ==
    {IF r.id = expedition_id THEN [r EXCEPT !.leader_id = leader_id] ELSE r :
        r \in details}

\* VALUES row of InsertLockout and InsertLockouts for one lockout
ExpeditionLockoutValues(expedition_id, lockout) ==
    [expedition_id |-> expedition_id,
     from_expedition_uuid |-> lockout.expedition_uuid,
     event_name |-> lockout.event_name,
     expire_time |-> FROM_UNIXTIME(lockout.expire_time),
     duration |-> lockout.duration]

\* faulty variant: the conflict clause without expire_time = VALUES(expire_time)
OnDuplicateLockoutKeepsExpiry(r, v) ==
    [r EXCEPT !.from_expedition_uuid = v.from_expedition_uuid,
              !.duration = v.duration]

\* ON DUPLICATE KEY UPDATE clause of InsertLockout and InsertLockouts
OnDuplicateLockout(r, v) ==
    [r EXCEPT !.from_expedition_uuid = v.from_expedition_uuid,
              !.expire_time = v.expire_time,
              !.duration = v.duration]

\* one VALUES row of the per-expedition INSERT ... ON DUPLICATE KEY UPDATE
InsertOrUpdateLockout(table, v) ==
    LET dup == {r \in table : ExpeditionLockoutKey(r) = ExpeditionLockoutKey(v)}
    IN  IF dup = {} THEN table \cup {v}
        ELSE (table \ dup) \cup {OnDuplicateLockout(r, v) : r \in dup}

\* expedition_lockouts after InsertLockout
InsertLockoutTable(table, expedition_id, lockout) ==
    InsertOrUpdateLockout(table, ExpeditionLockoutValues(expedition_id, lockout))

\* the VALUES rows of InsertLockouts, in the iteration order of the map
RECURSIVE InsertOrUpdateLockouts(_, _, _)
InsertOrUpdateLockouts(table, expedition_id, lockouts) ==
    IF DOMAIN lockouts = {} THEN table
    ELSE LET e == CHOOSE e \in DOMAIN lockouts : TRUE
         IN  InsertOrUpdateLockouts(
                InsertOrUpdateLockout(table,
                    ExpeditionLockoutValues(expedition_id, lockouts[e])),
                expedition_id,
                [x \in DOMAIN lockouts \ {e} |-> lockouts[x]])

\* expedition_lockouts after InsertLockouts: no statement for an empty map
InsertLockoutsTable(table, expedition_id, lockouts) ==
    IF DOMAIN lockouts = {} THEN table
    ELSE InsertOrUpdateLockouts(table, expedition_id, lockouts)

\* expedition_lockouts after DeleteLockout
DeleteLockoutTable(table, expedition_id, event_name) ==
    {r \in table : ~(r.expedition_id = expedition_id /\ r.event_name = event_name)}

\* rows selected by LoadMultipleExpeditionLockouts: expedition_lockouts INNER
\* JOIN expedition_details WHERE expedition_id IN (expedition_ids); the
\* statement has no condition on expire_time
LoadMultipleExpeditionLockoutsRows(lockouts, details, expedition_ids) ==
    {[expedition_id |-> r.expedition_id,
      from_expedition_uuid |-> r.from_expedition_uuid,
      expedition_name |-> d.expedition_name,
      event_name |-> r.event_name,
      expire_time |-> UNIX_TIMESTAMP(r.expire_time),
      duration |-> r.duration] :
        <<r, d>> \in {x \in lockouts \X details :
                        /\ x[1].expedition_id = x[2].id
                        /\ \E i \in DOMAIN expedition_ids :
                              expedition_ids[i] = x[1].expedition_id}}

\* the map LoadMultipleExpeditionLockouts builds from the selected rows:
\* lockouts[expedition_id].emplace(event_name, ExpeditionLockoutTimer)
LockoutsByExpedition(rows) ==
    [e \in {row.expedition_id : row \in rows} |->
        [ev \in {row.event_name : row \in {x \in rows : x.expedition_id = e}} |->
            LET row == CHOOSE x \in rows : x.expedition_id = e /\ x.event_name = ev
            IN  [expedition_uuid |-> row.from_expedition_uuid,
                 expedition_name |-> row.expedition_name,
                 event_name |-> row.event_name,
                 expire_time |-> row.expire_time,
                 duration |-> row.duration]]]

\* the map without an entry
NoLockouts == LockoutsByExpedition({})

\* what LoadMultipleExpeditionLockouts returns
LoadMultipleExpeditionLockouts(lockouts, details, expedition_ids, success) ==
    IF expedition_ids # <<>> /\ success
    THEN LockoutsByExpedition(
            LoadMultipleExpeditionLockoutsRows(lockouts, details, expedition_ids))
    ELSE NoLockouts

\* a default-constructed ExpeditionMember
EmptyMember == [char_id |-> 0, name |-> ""]

\* the statement of GetExpeditionLeader filters on a column expedition_id of
\* expedition_details JOIN character_data; the engine rejects a statement that
\* names a column neither table has
GetExpeditionLeaderSuccess(success) ==
    success /\ "expedition_id" \in ExpeditionDetailsColumns \cup CharacterDataColumns

\* rows selected by GetExpeditionLeader where the statement is accepted
GetExpeditionLeaderRows(details, expedition_id) ==
    {[leader_id |-> x[1].leader_id, name |-> x[2].name] :
        x \in {y \in details \X character_data :
                  /\ y[1].leader_id = y[2].id
                  /\ IF "expedition_id" \in ExpeditionDetailsColumns
                     THEN y[1].expedition_id = expedition_id
                     ELSE y[2].expedition_id = expedition_id}}

\* the members GetExpeditionLeader can return: the first selected row
GetExpeditionLeader(details, expedition_id, success) ==
    IF GetExpeditionLeaderSuccess(success)
       /\ Cardinality(GetExpeditionLeaderRows(details, expedition_id)) > 0
    THEN {[char_id |-> row.leader_id, name |-> row.name] :
            row \in GetExpeditionLeaderRows(details, expedition_id)}
    ELSE {EmptyMember}

\* a call that hands one statement to QueryDatabase: the service reports
\* success, and the statement has taken effect, or failure, and it has not
Query(c, success, tables, result) ==
    /\ Cardinality(tables.expedition_details) <= MaxRows
    /\ Cardinality(tables.expedition_lockouts) <= MaxRows
    /\ Cardinality(tables.expedition_character_lockouts) <= MaxRows
    /\ call' = c
    /\ queries' = <<[call |-> c.name, success |-> success]>>
    /\ before' = Tables
    /\ ret' = result
    /\ expedition_details' =
          IF success THEN tables.expedition_details ELSE expedition_details
    /\ expedition_lockouts' =
          IF success THEN tables.expedition_lockouts ELSE expedition_lockouts
    /\ expedition_character_lockouts' =
          IF success THEN tables.expedition_character_lockouts
          ELSE expedition_character_lockouts
    /\ expedition_members' =
          IF success THEN tables.expedition_members ELSE expedition_members
    /\ UNCHANGED <<history, threads>>

\* a call that returns without a statement
NoQuery(c, result) ==
    /\ call' = c
    /\ queries' = <<>>
    /\ before' = Tables
    /\ ret' = result
    /\ UNCHANGED <<expedition_details, expedition_lockouts,
                   expedition_character_lockouts, expedition_members,
                   history, threads>>

InsertExpedition ==
    \E uuid \in {"u1"}, instance_id \in {1}, expedition_name \in {"Solteris"},
       leader_id \in LeaderIds, min_players \in {1}, max_players \in {6},
       success \in BOOLEAN :
        /\ Idle
        /\ Query([name |-> "InsertExpedition", uuid |-> uuid,
                  instance_id |-> instance_id,
                  expedition_name |-> expedition_name, leader_id |-> leader_id,
                  min_players |-> min_players, max_players |-> max_players],
                 success,
                 [Tables EXCEPT !.expedition_details =
                     InsertExpeditionTable(expedition_details, uuid, instance_id,
                         expedition_name, leader_id, min_players, max_players)],
                 InsertExpeditionResult(success, LastInsertedID(expedition_details)))

UpdateLeaderID ==
    \E expedition_id \in ExpeditionIds, leader_id \in LeaderIds, success \in BOOLEAN :
        /\ Idle
        /\ Query([name |-> "UpdateLeaderID", expedition_id |-> expedition_id,
                  leader_id |-> leader_id],
                 success,
                 [Tables EXCEPT !.expedition_details =
                     UpdateLeaderIDTable(expedition_details, expedition_id, leader_id)],
                 Void)

GetExpeditionLeaderCall ==
    \E expedition_id \in ExpeditionIds, success \in BOOLEAN :
        \E leader \in GetExpeditionLeader(expedition_details, expedition_id, success) :
            /\ Idle
            /\ Query([name |-> "GetExpeditionLeader", expedition_id |-> expedition_id],
                     GetExpeditionLeaderSuccess(success), Tables, leader)

InsertLockout ==
    \E expedition_id \in ExpeditionIds, lockout \in ExpeditionLockoutTimers,
       success \in BOOLEAN :
        /\ Idle
        /\ Query([name |-> "InsertLockout", expedition_id |-> expedition_id,
                  lockout |-> lockout],
                 success,
                 [Tables EXCEPT !.expedition_lockouts =
                     InsertLockoutTable(expedition_lockouts, expedition_id, lockout)],
                 Void)

InsertLockouts ==
    \E expedition_id \in ExpeditionIds, lockouts \in LockoutMaps, success \in BOOLEAN :
        LET c == [name |-> "InsertLockouts", expedition_id |-> expedition_id,
                  lockouts |-> lockouts]
        IN  /\ Idle
            /\ IF DOMAIN lockouts = {}
               THEN success /\ NoQuery(c, Void)
               ELSE Query(c, success,
                        [Tables EXCEPT !.expedition_lockouts =
                            InsertLockoutsTable(expedition_lockouts, expedition_id,
                                                lockouts)],
                        Void)

DeleteLockout ==
    \E expedition_id \in ExpeditionIds, event_name \in EventNames, success \in BOOLEAN :
        /\ Idle
        /\ Query([name |-> "DeleteLockout", expedition_id |-> expedition_id,
                  event_name |-> event_name],
                 success,
                 [Tables EXCEPT !.expedition_lockouts =
                     DeleteLockoutTable(expedition_lockouts, expedition_id, event_name)],
                 Void)

LoadMultipleExpeditionLockoutsCall ==
    \E expedition_ids \in ExpeditionIdBatches, t \in Times, success \in BOOLEAN :
        LET c == [name |-> "LoadMultipleExpeditionLockouts",
                  expedition_ids |-> expedition_ids, now |-> t]
            result == LoadMultipleExpeditionLockouts(expedition_lockouts,
                          expedition_details, expedition_ids, success)
        IN  /\ Idle
            /\ IF expedition_ids = <<>>
               THEN success /\ NoQuery(c, result)
               ELSE Query(c, success, Tables, result)

NextRecords ==
    \/ InsertExpedition
    \/ UpdateLeaderID
    \/ GetExpeditionLeaderCall
    \/ InsertLockout
    \/ InsertLockouts
    \/ DeleteLockout
    \/ LoadMultipleExpeditionLockoutsCall
    \/ Return

\* the expedition record store and the per-expedition lockouts, over a
\* query-execution service that may report failure
SpecRecords == Init /\ [][NextRecords]_vars

\* the statement of the call in progress was executed with success
Succeeded == Len(queries) = 1 /\ queries[1].success

\* the statement of the call in progress was reported as failed
Failed == Len(queries) = 1 /\ ~queries[1].success

\* C12: lazy expiry of per-expedition lockouts.  Every lockout that
\* LoadMultipleExpeditionLockouts(expedition_ids) returns at NOW() = now has an
\* expiration greater than now; a row at or past its expiration is not
\* returned although it is stored.
C12_ExpeditionLockoutExpiry ==
    call.name = "LoadMultipleExpeditionLockouts" =>
        \A e \in DOMAIN ret :
            \A ev \in DOMAIN ret[e] : ret[e][ev].expire_time > call.now

\* C13: creation sentinel.  InsertExpedition hands one statement to the
\* service; when it fails the call returns 0 and every table is as before;
\* otherwise it returns the identity of the one record it has added, which
\* is not 0 and was not held before, and the other tables are as before.
C13_CreationSentinel ==
    call.name = "InsertExpedition" =>
        /\ Len(queries) = 1
        /\ Failed => ret = 0 /\ Tables = before
        /\ Succeeded =>
              /\ ret # 0
              /\ ret \notin {d.id : d \in before.expedition_details}
              /\ expedition_details = before.expedition_details \cup
                    {[id |-> ret, uuid |-> call.uuid,
                      instance_id |-> call.instance_id,
                      expedition_name |-> call.expedition_name,
                      leader_id |-> call.leader_id,
                      min_players |-> call.min_players,
                      max_players |-> call.max_players]}
              /\ expedition_lockouts = before.expedition_lockouts
              /\ expedition_members = before.expedition_members
              /\ expedition_character_lockouts = before.expedition_character_lockouts

\* C13 witness: InsertExpedition has failed and returned 0 where an expedition
\* record and a per-expedition lockout were stored
C13_Witness ==
    /\ call.name = "InsertExpedition"
    /\ Failed
    /\ ret = 0
    /\ expedition_details # {}
    /\ expedition_lockouts # {}

\* rows of the per-expedition table stored for the pair (e, ev)
RowsOfPair(table, e, ev) == {r \in table : ExpeditionLockoutKey(r) = <<e, ev>>}

\* C18: per-expedition lockout clock.  expedition_lockouts holds at most one
\* row per (expedition id, event name); after a successful InsertLockout or
\* InsertLockouts the row of each written pair carries the uuid, expiration
\* and duration of the call and the rows of other pairs are as before;
\* LoadMultipleExpeditionLockouts(ids) returns maps only for expeditions of
\* ids, each entry under the key of its event name and with the timer of the
\* stored row, and for a recorded expedition of ids it returns every row.
C18_ExpeditionLockoutClock ==
    /\ \A r1, r2 \in expedition_lockouts :
          ExpeditionLockoutKey(r1) = ExpeditionLockoutKey(r2) => r1 = r2
    /\ (call.name \in {"InsertLockout", "InsertLockouts"} /\ Succeeded) =>
          LET written == IF call.name = "InsertLockout"
                         THEN {call.lockout}
                         ELSE {call.lockouts[e] : e \in DOMAIN call.lockouts}
          IN  /\ \A l \in written :
                    LET rows == RowsOfPair(expedition_lockouts, call.expedition_id,
                                           l.event_name)
                    IN  /\ Cardinality(rows) = 1
                        /\ \A r \in rows : CarriesTimer(r, l)
              /\ \A r \in before.expedition_lockouts \cup expedition_lockouts :
                    (\A l \in written :
                        ExpeditionLockoutKey(r) # <<call.expedition_id, l.event_name>>)
                    => (r \in before.expedition_lockouts /\ r \in expedition_lockouts)
    /\ call.name = "LoadMultipleExpeditionLockouts" =>
          /\ \A e \in DOMAIN ret :
                /\ \E i \in DOMAIN call.expedition_ids : call.expedition_ids[i] = e
                /\ DOMAIN ret[e] # {}
                /\ \A ev \in DOMAIN ret[e] :
                      /\ ret[e][ev].event_name = ev
                      /\ \E r \in RowsOfPair(expedition_lockouts, e, ev) :
                            CarriesTimer(r, ret[e][ev])
          /\ Succeeded =>
                \A i \in DOMAIN call.expedition_ids :
                    LET e == call.expedition_ids[i]
                        events == {r.event_name :
                                     r \in {x \in expedition_lockouts :
                                               x.expedition_id = e}}
                    IN  (events # {} /\ \E d \in expedition_details : d.id = e) =>
                            (e \in DOMAIN ret /\ DOMAIN ret[e] = events)

\* C18 witness: InsertLockouts has written two events of an expedition, one of
\* which had a row with an earlier expiration, and that row now carries the
\* later one
C18_Witness ==
    /\ call.name = "InsertLockouts"
    /\ Succeeded
    /\ Cardinality(DOMAIN call.lockouts) > 1
    /\ \E e \in DOMAIN call.lockouts :
          /\ \E r \in RowsOfPair(before.expedition_lockouts, call.expedition_id, e) :
                UNIX_TIMESTAMP(r.expire_time) < call.lockouts[e].expire_time
          /\ \E r \in RowsOfPair(expedition_lockouts, call.expedition_id, e) :
                CarriesTimer(r, call.lockouts[e])

\* C19: leader resolution.  For an expedition record whose leader id is in
\* character_data, GetExpeditionLeader(expedition_id) returns the member
\* (leader id, leader name), the leader being the one the last UpdateLeaderID
\* has set.
C19_LeaderResolution ==
    call.name = "GetExpeditionLeader" =>
        \A d \in expedition_details :
            (d.id = call.expedition_id /\ \E cd \in character_data : cd.id = d.leader_id)
            => ret = [char_id |-> d.leader_id, name |-> CharacterName(d.leader_id)]

C17_DiscardComplete ==
    /\ call.name = "DeletePendingLockouts" =>
          /\ \A r \in expedition_character_lockouts :
                ~(r.character_id = call.character_id /\ r.is_pending)
          /\ \A r \in before :
                (r.character_id # call.character_id \/ ~r.is_pending)
                => r \in expedition_character_lockouts
          /\ expedition_character_lockouts \subseteq before
          /\ \A n \in ExpeditionNames :
                AssignPendingLockoutsTable(expedition_character_lockouts,
                    call.character_id, n) = expedition_character_lockouts
    /\ call.name = "DeleteAllMembersPendingLockouts" =>
          LET ids == {call.members[i].char_id : i \in DOMAIN call.members}
          IN  /\ \A r \in expedition_character_lockouts :
                    ~(r.character_id \in ids /\ r.is_pending)
              /\ \A r \in before :
                    (r.character_id \notin ids \/ ~r.is_pending)
                    => r \in expedition_character_lockouts
              /\ expedition_character_lockouts \subseteq before

\* C17 witness: DeletePendingLockouts(c) has removed a pending row of c and
\* left a non-pending row of c or a pending row of another character
C17_Witness ==
    /\ call.name = "DeletePendingLockouts"
    /\ \E r \in before \ expedition_character_lockouts :
          r.character_id = call.character_id /\ r.is_pending
    /\ \E r \in expedition_character_lockouts :
          \/ r.character_id = call.character_id /\ ~r.is_pending
          \/ r.character_id # call.character_id /\ r.is_pending

\* C20: the pending flag is fixed at row creation.  InsertCharacterLockouts
\* and InsertMembersLockout keep every stored row's triple and is_pending,
\* for both values of replace_timer and whatever is_pending is passed; a
\* write changes is_pending of a stored row only if it is
\* AssignPendingLockouts, and then from pending to non-pending.
C20_PendingFixedAtCreation ==
    /\ call.name \in {"InsertCharacterLockouts", "InsertMembersLockout"} =>
          \A r \in before :
              \E r2 \in expedition_character_lockouts :
                  /\ CharacterLockoutKey(r2) = CharacterLockoutKey(r)
                  /\ r2.is_pending = r.is_pending
    /\ call.name \in LockoutWrites =>
          \A r \in before, r2 \in expedition_character_lockouts :
              (CharacterLockoutKey(r) = CharacterLockoutKey(r2)
               /\ r.is_pending # r2.is_pending) =>
                 /\ call.name = "AssignPendingLockouts"
                 /\ r.is_pending
                 /\ ~r2.is_pending

\* C20 witness: InsertCharacterLockouts with replace_timer has replaced the
\* timer of a stored row whose is_pending differs from the one passed, and
\* the row has kept its is_pending
C20_Witness ==
    /\ call.name = "InsertCharacterLockouts"
    /\ call.replace_timer
    /\ \E i \in DOMAIN call.lockouts :
          LET l == call.lockouts[i] IN
          \E r \in RowsOfTriple(before, call.character_id, l.expedition_name,
                                l.event_name) :
              /\ r.is_pending # call.is_pending
              /\ ~CarriesTimer(r, l)
              /\ \E r2 \in RowsOfTriple(expedition_character_lockouts,
                              call.character_id, l.expedition_name, l.event_name) :
                    CarriesTimer(r2, l) /\ r2.is_pending = r.is_pending

(* --------------- every operation over a service that may fail --------- *)
\* the arguments of the calls made where the service may fail: one character,
\* one lockout, the expedition the first InsertExpedition creates
StorageMember == CHOOSE m \in ExpeditionMembers : m.char_id = 1
StorageLockout ==
    CHOOSE l \in LockoutTimers :
        /\ l.expedition_name = "Solteris"
        /\ l.event_name = "boss1"
        /\ l.expedition_uuid = "u1"
StorageMemberBatches == SeqsUpTo({StorageMember}, MaxBatch)
StorageLockoutBatches == SeqsUpTo({StorageLockout}, MaxBatch)
StorageLockoutMaps == {m \in LockoutMaps : \A e \in DOMAIN m : m[e] = StorageLockout}
StorageNameBatches == SeqsUpTo({StorageMember.name}, MaxBatch)
StorageIdBatches == SeqsUpTo({1}, MaxBatch)
StorageCharIds == {StorageMember.char_id}
StorageNames == {StorageLockout.expedition_name}
StorageEvents == {StorageLockout.event_name}
StorageTimes == {0}

\* the calls: operation name and arguments
StorageReads ==
    {[name |-> "LoadCharacterLockouts", character_id |-> c, now |-> t] :
        c \in StorageCharIds, t \in StorageTimes}
    \cup {[name |-> "LoadCharacterLockoutsFor", character_id |-> c,
           expedition_name |-> n, now |-> t] :
            c \in StorageCharIds, n \in StorageNames, t \in StorageTimes}
    \cup {[name |-> "LoadMultipleExpeditionLockouts", expedition_ids |-> ids,
           now |-> t] : ids \in StorageIdBatches, t \in StorageTimes}
    \cup {[name |-> "LoadMembersForCreateRequest", character_names |-> names,
           expedition_name |-> n, now |-> t] :
            names \in StorageNameBatches, n \in StorageNames, t \in StorageTimes}
    \cup {[name |-> "GetExpeditionIDFromCharacterID", character_id |-> c] :
            c \in StorageCharIds}
    \cup {[name |-> "GetExpeditionLeader", expedition_id |-> 1]}

StorageLockoutWrites ==
    {[name |-> "InsertCharacterLockouts", character_id |-> c, lockouts |-> ls,
      replace_timer |-> TRUE, is_pending |-> p] :
        c \in StorageCharIds, ls \in StorageLockoutBatches, p \in BOOLEAN}
    \cup {[name |-> "InsertMembersLockout", members |-> ms, lockout |-> StorageLockout] :
            ms \in StorageMemberBatches}
    \cup {[name |-> "AssignPendingLockouts", character_id |-> c, expedition_name |-> n] :
            c \in StorageCharIds, n \in StorageNames}
    \cup {[name |-> "DeletePendingLockouts", character_id |-> c] : c \in StorageCharIds}
    \cup {[name |-> "DeleteAllMembersPendingLockouts", members |-> ms] :
            ms \in StorageMemberBatches}
    \cup {[name |-> "DeleteAllCharacterLockouts", character_id |-> c] :
            c \in StorageCharIds \cup {0}}
    \cup {[name |-> "DeleteAllCharacterLockoutsFor", character_id |-> c,
           expedition_name |-> n] :
            c \in StorageCharIds \cup {0}, n \in StorageNames \cup {""}}
    \cup {[name |-> "DeleteCharacterLockout", character_id |-> c,
           expedition_name |-> n, event_name |-> e] :
            c \in StorageCharIds, n \in StorageNames, e \in StorageEvents}
    \cup {[name |-> "DeleteMembersLockout", members |-> ms, expedition_name |-> n,
           event_name |-> e] :
            ms \in StorageMemberBatches, n \in StorageNames, e \in StorageEvents}

StorageMemberWrites ==
    {[name |-> "InsertMember", expedition_id |-> 1, character_id |-> c] :
        c \in StorageCharIds}
    \cup {[name |-> "InsertMembers", expedition_id |-> 1, members |-> ms] :
            ms \in StorageMemberBatches}
    \cup {[name |-> "DeleteMember", expedition_id |-> 1, character_id |-> c] :
            c \in StorageCharIds}
    \cup {[name |-> "DeleteAllMembers", expedition_id |-> 1]}

StorageRecordWrites ==
    {[name |-> "InsertExpedition", uuid |-> "u1", instance_id |-> 1,
      expedition_name |-> n, leader_id |-> c, min_players |-> 1,
      max_players |-> 6] : n \in StorageNames, c \in StorageCharIds}
    \cup {[name |-> "UpdateLeaderID", expedition_id |-> 1, leader_id |-> c] :
            c \in StorageCharIds \cup {0}}
    \cup {[name |-> "InsertLockout", expedition_id |-> 1, lockout |-> StorageLockout]}
    \cup {[name |-> "InsertLockouts", expedition_id |-> 1, lockouts |-> m] :
            m \in StorageLockoutMaps}
    \cup {[name |-> "DeleteLockout", expedition_id |-> 1, event_name |-> e] :
            e \in StorageEvents}

StorageCalls ==
    StorageReads \cup StorageLockoutWrites \cup StorageMemberWrites
        \cup StorageRecordWrites

\* faulty variant: a statement is formatted and issued whatever the input
IssuesStatementAlways(c) == TRUE

\* the operation reaches its QueryDatabase call: batch operations only with a
\* non-empty input, the DeleteAllCharacterLockouts overloads only with their
\* guard, every other operation always
IssuesStatement(c) ==
    CASE c.name \in {"InsertCharacterLockouts"} -> c.lockouts # <<>>
      [] c.name \in {"InsertMembersLockout", "DeleteAllMembersPendingLockouts",
                     "DeleteMembersLockout", "InsertMembers"} -> c.members # <<>>
      [] c.name = "InsertLockouts" -> DOMAIN c.lockouts # {}
      [] c.name = "LoadMultipleExpeditionLockouts" -> c.expedition_ids # <<>>
      [] c.name = "LoadMembersForCreateRequest" -> c.character_names # <<>>
      [] c.name = "DeleteAllCharacterLockouts" -> c.character_id # 0
      [] c.name = "DeleteAllCharacterLockoutsFor" ->
            c.character_id # 0 /\ c.expedition_name # ""
      [] OTHER -> TRUE

\* the storage engine accepts the statement of the call: GetExpeditionLeader
\* names a column, and the plain INSERT of InsertMembers fails on a stored key
Accepts(c, tables) ==
    CASE c.name = "GetExpeditionLeader" -> GetExpeditionLeaderSuccess(TRUE)
      [] c.name = "InsertMembers" ->
            InsertRows(tables.expedition_members,
                [i \in DOMAIN c.members |->
                    [expedition_id |-> c.expedition_id,
                     character_id |-> c.members[i].char_id]]).success
      [] OTHER -> TRUE

\* the tables after the statement of the call has been executed
Effect(c, tables) ==
    LET lockouts == tables.expedition_character_lockouts
        members == tables.expedition_members
        details == tables.expedition_details
        clock == tables.expedition_lockouts
    IN
    CASE c.name = "InsertCharacterLockouts" ->
            [tables EXCEPT !.expedition_character_lockouts =
                InsertCharacterLockoutsTable(lockouts, c.character_id, c.lockouts,
                                             c.replace_timer, c.is_pending)]
      [] c.name = "InsertMembersLockout" ->
            [tables EXCEPT !.expedition_character_lockouts =
                InsertMembersLockoutTable(lockouts, c.members, c.lockout)]
      [] c.name = "AssignPendingLockouts" ->
            [tables EXCEPT !.expedition_character_lockouts =
                AssignPendingLockoutsTable(lockouts, c.character_id, c.expedition_name)]
      [] c.name = "DeletePendingLockouts" ->
            [tables EXCEPT !.expedition_character_lockouts =
                DeletePendingLockoutsTable(lockouts, c.character_id)]
      [] c.name = "DeleteAllMembersPendingLockouts" ->
            [tables EXCEPT !.expedition_character_lockouts =
                DeleteAllMembersPendingLockoutsTable(lockouts, c.members)]
      [] c.name = "DeleteAllCharacterLockouts" ->
            [tables EXCEPT !.expedition_character_lockouts =
                DeleteAllCharacterLockoutsTable(lockouts, c.character_id)]
      [] c.name = "DeleteAllCharacterLockoutsFor" ->
            [tables EXCEPT !.expedition_character_lockouts =
                DeleteAllCharacterLockoutsForTable(lockouts, c.character_id,
                                                   c.expedition_name)]
      [] c.name = "DeleteCharacterLockout" ->
            [tables EXCEPT !.expedition_character_lockouts =
                DeleteCharacterLockoutTable(lockouts, c.character_id,
                                            c.expedition_name, c.event_name)]
      [] c.name = "DeleteMembersLockout" ->
            [tables EXCEPT !.expedition_character_lockouts =
                DeleteMembersLockoutTable(lockouts, c.members, c.expedition_name,
                                          c.event_name)]
      [] c.name = "InsertMember" ->
            [tables EXCEPT !.expedition_members =
                InsertMemberTable(members, c.expedition_id, c.character_id)]
      [] c.name = "InsertMembers" ->
            [tables EXCEPT !.expedition_members =
                InsertMembersTable(members, c.expedition_id, c.members)]
      [] c.name = "DeleteMember" ->
            [tables EXCEPT !.expedition_members =
                DeleteMemberTable(members, c.expedition_id, c.character_id)]
      [] c.name = "DeleteAllMembers" ->
            [tables EXCEPT !.expedition_members =
                DeleteAllMembersTable(members, c.expedition_id)]
      [] c.name = "InsertExpedition" ->
            [tables EXCEPT !.expedition_details =
                InsertExpeditionTable(details, c.uuid, c.instance_id,
                    c.expedition_name, c.leader_id, c.min_players, c.max_players)]
      [] c.name = "UpdateLeaderID" ->
            [tables EXCEPT !.expedition_details =
                UpdateLeaderIDTable(details, c.expedition_id, c.leader_id)]
      [] c.name = "InsertLockout" ->
            [tables EXCEPT !.expedition_lockouts =
                InsertLockoutTable(clock, c.expedition_id, c.lockout)]
      [] c.name = "InsertLockouts" ->
            [tables EXCEPT !.expedition_lockouts =
                InsertLockoutsTable(clock, c.expedition_id, c.lockouts)]
      [] c.name = "DeleteLockout" ->
            [tables EXCEPT !.expedition_lockouts =
                DeleteLockoutTable(clock, c.expedition_id, c.event_name)]
      [] OTHER -> tables

\* what the call can return; success: a statement was issued and has succeeded
ResultsOf(c, tables, success) ==
    CASE c.name = "LoadCharacterLockouts" ->
            IF success
            THEN {LoadCharacterLockouts(tables.expedition_character_lockouts,
                                        c.character_id, c.now)}
            ELSE {{}}
      [] c.name = "LoadCharacterLockoutsFor" ->
            IF success
            THEN {LoadCharacterLockoutsFor(tables.expedition_character_lockouts,
                                           c.character_id, c.expedition_name, c.now)}
            ELSE {{}}
      [] c.name = "LoadMultipleExpeditionLockouts" ->
            {LoadMultipleExpeditionLockouts(tables.expedition_lockouts,
                tables.expedition_details, c.expedition_ids, success)}
      [] c.name = "LoadMembersForCreateRequest" ->
            IF success
            THEN {LoadMembersForCreateRequest(tables.expedition_character_lockouts,
                      tables.expedition_members, c.character_names,
                      c.expedition_name, c.now)}
            ELSE {{}}
      [] c.name = "GetExpeditionIDFromCharacterID" ->
            IF success
            THEN GetExpeditionIDFromCharacterID(tables.expedition_members,
                                                c.character_id)
            ELSE {0}
      [] c.name = "GetExpeditionLeader" ->
            GetExpeditionLeader(tables.expedition_details, c.expedition_id, success)
      [] c.name = "InsertExpedition" ->
            {InsertExpeditionResult(success, LastInsertedID(tables.expedition_details))}
      [] OTHER -> {Void}

\* faulty variant: the rows are read without results.Success() being checked
ResultsUnchecked(c, tables, success) == ResultsOf(c, tables, TRUE)

Results(c, tables, success) == ResultsOf(c, tables, success)

\* one call: no statement, or one statement that the service executes or fails
Storage(c, success) ==
    /\ Idle
    /\ IF IssuesStatement(c)
       THEN LET ok == success /\ Accepts(c, Tables)
            IN  \E result \in Results(c, Tables, ok) :
                    Query(c, ok, Effect(c, Tables), result)
       ELSE /\ success
            /\ \E result \in Results(c, Tables, FALSE) : NoQuery(c, result)

\* the operations, each as one call that the service may fail
LoadCharacterLockoutsMayFail ==
    \E c \in StorageCalls, success \in BOOLEAN :
        /\ c.name = "LoadCharacterLockouts"
        /\ Storage(c, success)

LoadCharacterLockoutsForMayFail ==
    \E c \in StorageCalls, success \in BOOLEAN :
        /\ c.name = "LoadCharacterLockoutsFor"
        /\ Storage(c, success)

LoadMultipleExpeditionLockoutsMayFail ==
    \E c \in StorageCalls, success \in BOOLEAN :
        /\ c.name = "LoadMultipleExpeditionLockouts"
        /\ Storage(c, success)

LoadMembersForCreateRequestMayFail ==
    \E c \in StorageCalls, success \in BOOLEAN :
        /\ c.name = "LoadMembersForCreateRequest"
        /\ Storage(c, success)

GetExpeditionIDFromCharacterIDMayFail ==
    \E c \in StorageCalls, success \in BOOLEAN :
        /\ c.name = "GetExpeditionIDFromCharacterID"
        /\ Storage(c, success)

GetExpeditionLeaderMayFail ==
    \E c \in StorageCalls, success \in BOOLEAN :
        /\ c.name = "GetExpeditionLeader"
        /\ Storage(c, success)

InsertCharacterLockoutsMayFail ==
    \E c \in StorageCalls, success \in BOOLEAN :
        /\ c.name = "InsertCharacterLockouts"
        /\ Storage(c, success)

InsertMembersLockoutMayFail ==
    \E c \in StorageCalls, success \in BOOLEAN :
        /\ c.name = "InsertMembersLockout"
        /\ Storage(c, success)

AssignPendingLockoutsMayFail ==
    \E c \in StorageCalls, success \in BOOLEAN :
        /\ c.name = "AssignPendingLockouts"
        /\ Storage(c, success)

DeletePendingLockoutsMayFail ==
    \E c \in StorageCalls, success \in BOOLEAN :
        /\ c.name = "DeletePendingLockouts"
        /\ Storage(c, success)

DeleteAllMembersPendingLockoutsMayFail ==
    \E c \in StorageCalls, success \in BOOLEAN :
        /\ c.name = "DeleteAllMembersPendingLockouts"
        /\ Storage(c, success)

DeleteAllCharacterLockoutsMayFail ==
    \E c \in StorageCalls, success \in BOOLEAN :
        /\ c.name = "DeleteAllCharacterLockouts"
        /\ Storage(c, success)

DeleteAllCharacterLockoutsForMayFail ==
    \E c \in StorageCalls, success \in BOOLEAN :
        /\ c.name = "DeleteAllCharacterLockoutsFor"
        /\ Storage(c, success)

DeleteCharacterLockoutMayFail ==
    \E c \in StorageCalls, success \in BOOLEAN :
        /\ c.name = "DeleteCharacterLockout"
        /\ Storage(c, success)

DeleteMembersLockoutMayFail ==
    \E c \in StorageCalls, success \in BOOLEAN :
        /\ c.name = "DeleteMembersLockout"
        /\ Storage(c, success)

InsertMemberMayFail ==
    \E c \in StorageCalls, success \in BOOLEAN :
        /\ c.name = "InsertMember"
        /\ Storage(c, success)

InsertMembersMayFail ==
    \E c \in StorageCalls, success \in BOOLEAN :
        /\ c.name = "InsertMembers"
        /\ Storage(c, success)

DeleteMemberMayFail ==
    \E c \in StorageCalls, success \in BOOLEAN :
        /\ c.name = "DeleteMember"
        /\ Storage(c, success)

DeleteAllMembersMayFail ==
    \E c \in StorageCalls, success \in BOOLEAN :
        /\ c.name = "DeleteAllMembers"
        /\ Storage(c, success)

InsertExpeditionMayFail ==
    \E c \in StorageCalls, success \in BOOLEAN :
        /\ c.name = "InsertExpedition"
        /\ Storage(c, success)

UpdateLeaderIDMayFail ==
    \E c \in StorageCalls, success \in BOOLEAN :
        /\ c.name = "UpdateLeaderID"
        /\ Storage(c, success)

InsertLockoutMayFail ==
    \E c \in StorageCalls, success \in BOOLEAN :
        /\ c.name = "InsertLockout"
        /\ Storage(c, success)

InsertLockoutsMayFail ==
    \E c \in StorageCalls, success \in BOOLEAN :
        /\ c.name = "InsertLockouts"
        /\ Storage(c, success)

DeleteLockoutMayFail ==
    \E c \in StorageCalls, success \in BOOLEAN :
        /\ c.name = "DeleteLockout"
        /\ Storage(c, success)

NextStorage ==
    \/ LoadCharacterLockoutsMayFail
    \/ LoadCharacterLockoutsForMayFail
    \/ LoadMultipleExpeditionLockoutsMayFail
    \/ LoadMembersForCreateRequestMayFail
    \/ GetExpeditionIDFromCharacterIDMayFail
    \/ GetExpeditionLeaderMayFail
    \/ InsertCharacterLockoutsMayFail
    \/ InsertMembersLockoutMayFail
    \/ AssignPendingLockoutsMayFail
    \/ DeletePendingLockoutsMayFail
    \/ DeleteAllMembersPendingLockoutsMayFail
    \/ DeleteAllCharacterLockoutsMayFail
    \/ DeleteAllCharacterLockoutsForMayFail
    \/ DeleteCharacterLockoutMayFail
    \/ DeleteMembersLockoutMayFail
    \/ InsertMemberMayFail
    \/ InsertMembersMayFail
    \/ DeleteMemberMayFail
    \/ DeleteAllMembersMayFail
    \/ InsertExpeditionMayFail
    \/ UpdateLeaderIDMayFail
    \/ InsertLockoutMayFail
    \/ InsertLockoutsMayFail
    \/ DeleteLockoutMayFail
    \/ Return

\* every operation of the file, over a query-execution service that may
\* report failure
SpecStorage == Init /\ [][NextStorage]_vars

\* the call in progress is a batch operation handed an empty collection
EmptyInput ==
    \/ /\ call.name \in {"InsertCharacterLockouts"}
       /\ Len(call.lockouts) = 0
    \/ /\ call.name \in {"InsertMembersLockout", "InsertMembers",
                         "DeleteMembersLockout", "DeleteAllMembersPendingLockouts"}
       /\ Len(call.members) = 0
    \/ /\ call.name = "InsertLockouts"
       /\ DOMAIN call.lockouts = {}
    \/ /\ call.name = "LoadMultipleExpeditionLockouts"
       /\ Len(call.expedition_ids) = 0
    \/ /\ call.name = "LoadMembersForCreateRequest"
       /\ Len(call.character_names) = 0

\* C14: empty batch short-circuit.  A batch operation called with an empty
\* collection hands no statement to QueryDatabase and leaves every table as
\* it was; LoadMultipleExpeditionLockouts then returns a map without entry
\* and LoadMembersForCreateRequest a result without row.
C14_EmptyBatchShortCircuit ==
    EmptyInput =>
        /\ queries = <<>>
        /\ Tables = before
        /\ call.name = "LoadMultipleExpeditionLockouts" => DOMAIN ret = {}
        /\ call.name = "LoadMembersForCreateRequest" => ret = {}
        /\ call.name \notin {"LoadMultipleExpeditionLockouts",
                             "LoadMembersForCreateRequest"} => ret = Void

\* C14 witness: InsertCharacterLockouts was called with an empty vector for a
\* character that has a stored lockout, and no statement was issued
C14_Witness ==
    /\ call.name = "InsertCharacterLockouts"
    /\ call.lockouts = <<>>
    /\ queries = <<>>
    /\ \E r \in expedition_character_lockouts : r.character_id = call.character_id

\* the result of an operation that has read nothing
EmptyResult ==
    CASE call.name \in {"LoadCharacterLockouts", "LoadCharacterLockoutsFor",
                        "LoadMembersForCreateRequest"} -> ret = {}
      [] call.name = "LoadMultipleExpeditionLockouts" -> DOMAIN ret = {}
      [] call.name \in {"GetExpeditionIDFromCharacterID", "InsertExpedition"} -> ret = 0
      [] call.name = "GetExpeditionLeader" -> ret = EmptyMember
      [] OTHER -> ret = Void

\* C16: uniform storage-failure handling.  No call hands more than one
\* statement to QueryDatabase; when the service reports failure every table
\* is as before the call, a read returns its empty result (no lockout, no
\* entry, expedition id 0, the empty member), InsertExpedition returns 0 and
\* every other write returns nothing.
C16_UniformFailure ==
    /\ Len(queries) <= 1
    /\ Failed => (Tables = before /\ EmptyResult)

\* C16 witness: the statement of AssignPendingLockouts, which would have
\* promoted a pending row, has failed, and the row is still pending
C16_Witness ==
    /\ call.name = "AssignPendingLockouts"
    /\ Failed
    /\ Effect(call, before) # before
    /\ \E r \in expedition_character_lockouts :
          /\ r.character_id = call.character_id
          /\ r.expedition_name = call.expedition_name
          /\ r.is_pending

\* rows of table an event-level deletion of (ids, n, e) selects when pending
\* rows are spared
NonPendingOfEvent(table, ids, n, e) ==
    {r \in table : /\ r.character_id \in ids
                   /\ r.expedition_name = n /\ r.event_name = e
                   /\ ~r.is_pending}

\* C21: event-level deletions spare pending rows.  DeleteCharacterLockout(c,
\* name, event) and DeleteMembersLockout(members, name, event) remove exactly
\* the non-pending rows of their filter: every pending row, the one of the
\* same triple included, is still stored and AssignPendingLockouts still
\* promotes it.  DeleteAllCharacterLockouts(c) and DeleteAllCharacterLockouts(c,
\* name), when their guard lets them act, leave no row of their filter,
\* pending or not.  None of the four changes a row of a character outside
\* its filter.
C21_EventDeletionSparesPending ==
    /\ call.name = "DeleteCharacterLockout" =>
          /\ expedition_character_lockouts =
                before \ NonPendingOfEvent(before, {call.character_id},
                                           call.expedition_name, call.event_name)
          /\ \A r \in RowsOfTriple(before, call.character_id,
                                    call.expedition_name, call.event_name) :
                r.is_pending =>
                  /\ r \in expedition_character_lockouts
                  /\ [r EXCEPT !.is_pending = FALSE] \in
                        AssignPendingLockoutsTable(expedition_character_lockouts,
                            call.character_id, call.expedition_name)
          /\ \A r \in before :
                r.character_id # call.character_id
                => r \in expedition_character_lockouts
    /\ call.name = "DeleteMembersLockout" =>
          LET ids == {call.members[i].char_id : i \in DOMAIN call.members}
          IN  /\ expedition_character_lockouts =
                    before \ NonPendingOfEvent(before, ids,
                                               call.expedition_name, call.event_name)
              /\ \A r \in before :
                    r.is_pending =>
                      /\ r \in expedition_character_lockouts
                      /\ [r EXCEPT !.is_pending = FALSE] \in
                            AssignPendingLockoutsTable(expedition_character_lockouts,
                                r.character_id, r.expedition_name)
              /\ \A r \in before :
                    r.character_id \notin ids => r \in expedition_character_lockouts
    /\ call.name = "DeleteAllCharacterLockouts" =>
          /\ expedition_character_lockouts \subseteq before
          /\ call.character_id # 0 =>
                RowsOfCharacter(expedition_character_lockouts, call.character_id) = {}
          /\ \A r \in before :
                r.character_id # call.character_id
                => r \in expedition_character_lockouts
    /\ call.name = "DeleteAllCharacterLockoutsFor" =>
          /\ expedition_character_lockouts \subseteq before
          /\ (call.character_id # 0 /\ call.expedition_name # "") =>
                \A r \in expedition_character_lockouts :
                    ~(r.character_id = call.character_id
                      /\ r.expedition_name = call.expedition_name)
          /\ \A r \in before :
                (r.character_id # call.character_id
                 \/ r.expedition_name # call.expedition_name)
                => r \in expedition_character_lockouts

\* C21 witness: DeleteCharacterLockout(c, name, event) has run on a table
\* holding a pending row of (c, name, event), and the row is still stored
C21_Witness ==
    /\ call.name = "DeleteCharacterLockout"
    /\ \E r \in RowsOfTriple(before, call.character_id,
                              call.expedition_name, call.event_name) :
          /\ r.is_pending
          /\ r \in expedition_character_lockouts

====
